---- MODULE Spec2Model ----
(***************************************************************************)
(* Model of the status-report generator (agrabhishek/status-generator).    *)
(*                                                                         *)
(* Several machines share this module, each with its own specification:    *)
(*   SpecJudge   the judge validation / regeneration loop of one report    *)
(*               request (spec.md 4.7; only its configuration and prompts  *)
(*               live in src/config.py, the loop itself is modelled from   *)
(*               the specification);                                       *)
(*   SpecReport  generate_report of src/app.py (identical in               *)
(*               src/jira_core.py): normalisation, root set, hierarchy     *)
(*               text, persona digest, AI summary, next steps and metrics  *)
(*               line;                                                     *)
(*   SpecPeriod  get_next_period_dates and build_jql of src/app.py         *)
(*               (identical in src/jira_core.py, next to JQLBuilder), one  *)
(*               of them applied to one period text;                       *)
(*   SpecSummary get_llm_summary of src/app.py (identical in               *)
(*               src/llm_integrations.py), called on its own and from      *)
(*               generate_report;                                          *)
(*   SpecCall    generate_report called with a period text of any shape;   *)
(*   SpecFetch   fetch_issues of src/app.py and JiraClient.fetch_issues of *)
(*               src/jira_core.py against an issue source that pages a     *)
(*               fixed result or answers anything (SpecFetchFair: the      *)
(*               same, the loop always taking its next step);              *)
(*   SpecPresets save_criteria, load_criteria, get_all_presets and         *)
(*               delete_preset of src/storage.py (the same functions are   *)
(*               in src/app.py), called one after another;                 *)
(*   SpecRace    two of these calls running at the same time on the one    *)
(*               preset file.                                              *)
(* A specification leaves the other machines' variables untouched.         *)
(***************************************************************************)
EXTENDS Integers, Sequences, FiniteSets, TLC

VARIABLES
    \* ---- judge regeneration loop (spec.md 4.7) ----
    loop_state,         \* IDLE, GENERATE, VALIDATE, ACCEPT, REGENERATE, GIVE_UP
    attempt,            \* RegenerationAttempt counter
    report_text,        \* attempt number whose generation pass produced the current report, -1: none
    evaluation,         \* the JudgeEvaluation the loop keeps (NoEvaluation: none)
    validation_passed,  \* the boolean of the terminal output
    judge_response,     \* raw text of the judge's answer to the current report, as label/value lines
    generation_passes,  \* generation passes performed in this request
    evaluations,        \* every evaluation parsed in this request, oldest first
    output,             \* what the request returned to its caller (NoOutput until it returns)
    \* ---- generate_report (src/app.py) ----
    issues,             \* argument: the fetched batch
    persona,            \* argument: persona tag
    gr_pc,              \* position inside generate_report
    issues_dict,        \* local: key -> normalised row
    df,                 \* local: rows in insertion order
    achieved_keys,      \* local: keys of the rows with Status == 'Done'
    roots,              \* local: root set
    hierarchy_text,     \* local: persona digest
    divisions,          \* number of divisions evaluated by this call
    external_calls,     \* requests this call made to the tracker and to a provider, oldest first
    gr_result,          \* (report, df, next_df) returned, or the exception raised
    \* ---- the LLM summary of generate_report, get_llm_summary (src/app.py) ----
    llm_provider,       \* argument: provider tag
    api_key,            \* argument: credential ("" when none is given)
    groq_model,         \* argument: Groq model ("" when none is selected)
    provider_outcome,   \* how the provider answered the call ("none": not called)
    provider_calls,     \* network calls made to a provider
    ai_summary,         \* what get_llm_summary returned or raised
    achievements_summary, \* local: the delivered section of the report
    \* ---- get_next_period_dates (src/app.py) ----
    current_period,     \* argument (also of generate_report): the period text, as the pieces between its " to "
    now,                \* the date datetime.now() reads
    next_period,        \* the text returned, or the exception raised (a local of generate_report)
    \* ---- build_jql (src/app.py), JQLBuilder (src/jira_core.py) ----
    builder,            \* the function called
    spaces,             \* argument (also of generate_report): the project names between the commas
    labels,             \* argument (also of generate_report): the labels between the commas
    time_field,         \* argument: the date field of the filter
    next_jql,           \* the query returned, or the exception raised (a local of generate_report)
    \* ---- fetch_issues (src/app.py, src/jira_core.py) ----
    source_behaviour,   \* "paged": the source serves its issues page by page; "any": it answers as it likes
    source_size,        \* issues the source holds for the query
    fetcher,            \* "app": fetch_issues, "JiraClient": JiraClient.fetch_issues
    max_results,        \* argument of JiraClient.fetch_issues
    fetched,            \* local: issues
    start_at,           \* local: offset of the next page request
    requests,           \* offsets requested from the source, oldest first
    fetch_failed,       \* a page request raised an exception
    fetch_pc,           \* position inside fetch_issues
    fetch_result,       \* the list returned, or the exception raised
    \* ---- preset storage (src/storage.py) ----
    presets_file,       \* jira_presets.json: whether it exists, and its members in order
    preset_calls,       \* the save_criteria and delete_preset calls made, oldest first
    preset_result,      \* what the last call returned
    invocations         \* the calls running at the same time: arguments, position, local presets

judge_vars == <<loop_state, attempt, report_text, evaluation, validation_passed,
                judge_response, generation_passes, evaluations, output>>
report_vars == <<issues, persona, gr_pc, issues_dict, df, achieved_keys, roots,
                 hierarchy_text, divisions, external_calls, gr_result>>
llm_vars == <<llm_provider, api_key, groq_model, provider_outcome, provider_calls,
              ai_summary, achievements_summary>>
period_vars == <<current_period, now, next_period>>
jql_vars == <<builder, spaces, labels, time_field, next_jql>>
fetch_vars == <<source_behaviour, source_size, fetcher, max_results, fetched, start_at, requests,
                fetch_failed, fetch_pc, fetch_result>>
store_vars == <<presets_file, preset_calls, preset_result, invocations>>
vars == <<judge_vars, report_vars, llm_vars, period_vars, jql_vars, fetch_vars,
          store_vars>>

\* What the steps of one machine leave alone.
not_judge_vars == <<report_vars, llm_vars, period_vars, jql_vars, fetch_vars, store_vars>>
not_report_vars == <<judge_vars, fetch_vars, store_vars>>
not_period_vars == <<judge_vars, report_vars, llm_vars, fetch_vars, store_vars>>
not_fetch_vars == <<judge_vars, report_vars, llm_vars, period_vars, jql_vars, store_vars>>
not_store_vars == <<judge_vars, report_vars, llm_vars, period_vars, jql_vars, fetch_vars>>

(***************************************************************************)
(* Bounds of the model.                                                    *)
(***************************************************************************)
MaxLines == 3          \* lines in one judge answer
MaxPasses == 4         \* generation passes one request may be seen to make
MaxFlat == 8           \* issues in a batch without parent/subtask links
MaxSource == 120       \* issues of a source, besides the few large sources
MaxCalls == 4          \* save_criteria and delete_preset calls in one run
MaxRequests == 25      \* page requests of one fetch recorded one by one
RecursionLimit == 6    \* call depth at which the interpreter raises RecursionError

(***************************************************************************)
(* JUDGE VALIDATOR AND REGENERATION LOOP                                   *)
(***************************************************************************)
max_regeneration_attempts_Raised == 2 + 1

\* AI_JUDGE_CONFIG["max_regeneration_attempts"]
max_regeneration_attempts == 2

\* VALIDATION_STATUS: [PASS / FAIL / INSUFFICIENT_DATA]
ValidationStatuses == {"PASS", "FAIL", "INSUFFICIENT_DATA"}

\* RECOMMENDATION: [APPROVE / REGENERATE / MANUAL_REVIEW]
Recommendations == {"APPROVE", "REGENERATE", "MANUAL_REVIEW"}

\* The labels of the judge's output format that the parser reads, and one it does not.
STATUS_LABEL == "VALIDATION_STATUS"
SCORE_LABEL == "TRUSTWORTHINESS_SCORE"
RECOMMENDATION_LABEL == "RECOMMENDATION"

\* Lines a judge answer may hold: well-formed ones, ones with a value outside
\* the format, and a per-check line that mentions PASS without being the status line.
ResponseLines ==
    [label : {STATUS_LABEL}, value : ValidationStatuses \cup {"MAYBE"}]
    \cup [label : {SCORE_LABEL}, value : {"9", "high"}]
    \cup [label : {RECOMMENDATION_LABEL}, value : {"REGENERATE", "n/a"}]
    \cup [label : {"COMPLETENESS"}, value : {"PASS"}]

RECURSIVE SeqsUpTo(_, _)
SeqsUpTo(S, n) ==
    IF n = 0 THEN {<<>>}
    ELSE LET shorter == SeqsUpTo(S, n - 1)
         IN shorter \cup {Append(s, x) : s \in shorter, x \in S}

JudgeResponses == SeqsUpTo(ResponseLines, MaxLines)

NoResponse == <<[label |-> "NONE", value |-> "NONE"]>>

NoEvaluation ==
    [trustworthiness_score |-> 0, validation_status |-> "NONE", recommendation |-> "NONE"]

\* The value of the first line carrying the label, "" when no line carries it.
RECURSIVE LineValue(_, _)
LineValue(response, label) ==
    IF response = <<>> THEN ""
    ELSE IF Head(response).label = label THEN Head(response).value
    ELSE LineValue(Tail(response), label)

\* Decimal text of the scores 0..10; anything else does not parse.
ScoreTexts == <<"0", "1", "2", "3", "4", "5", "6", "7", "8", "9", "10">>

ParseScore(text) ==
    IF \E i \in 1..Len(ScoreTexts) : ScoreTexts[i] = text
    THEN (CHOOSE i \in 1..Len(ScoreTexts) : ScoreTexts[i] = text) - 1
    ELSE 0

ParseStatus_FailOpen(text) ==
    IF text \in {"FAIL", "INSUFFICIENT_DATA"} THEN text ELSE "PASS"

ParseStatus(text) ==
    IF text \in ValidationStatuses THEN text ELSE "FAIL"

ParseRecommendation(text) ==
    IF text \in Recommendations THEN text ELSE "MANUAL_REVIEW"

\* The parser of the judge's semi-structured answer (fail closed).
parse_judge_response(response) ==
    [trustworthiness_score |-> ParseScore(LineValue(response, SCORE_LABEL)),
     validation_status |-> ParseStatus(LineValue(response, STATUS_LABEL)),
     recommendation |-> ParseRecommendation(LineValue(response, RECOMMENDATION_LABEL))]

JudgeDecision_NoCap(status, n, score) ==
    IF status = "PASS" THEN "ACCEPT"
    ELSE IF status = "FAIL" THEN "REGENERATE"
    ELSE "GIVE_UP"

JudgeDecision_GiveUpAtCap(status, n, score) ==
    IF n = max_regeneration_attempts THEN "GIVE_UP"
    ELSE IF status = "PASS" THEN "ACCEPT"
    ELSE IF status = "FAIL" THEN "REGENERATE"
    ELSE "GIVE_UP"

JudgeDecision_ScoreGate(status, n, score) ==
    IF status = "PASS" /\ score >= 5 THEN "ACCEPT"
    ELSE IF status = "FAIL" /\ n < max_regeneration_attempts THEN "REGENERATE"
    ELSE "GIVE_UP"

\* The transition taken from VALIDATE.
JudgeDecision(status, n, score) ==
    IF status = "PASS" THEN "ACCEPT"
    ELSE IF status = "FAIL" /\ n < max_regeneration_attempts THEN "REGENERATE"
    ELSE "GIVE_UP"

TerminalStates == {"ACCEPT", "GIVE_UP"}

NoOutput ==
    [returned |-> FALSE, report_text |-> -1, evaluation |-> NoEvaluation,
     validation_passed |-> FALSE, terminal |-> "NONE", regenerations |-> 0]

NoDigest ==
    [kind |-> "none", lines |-> <<>>, count |-> 0, total |-> 0, pct |-> 0,
     summaries |-> <<>>, others |-> 0]

NoResult == [kind |-> "none"]

NoDate == [y |-> 0, m |-> 0, d |-> 0]

\* How a call ended.
Returned(text) == [kind |-> "returned", text |-> text]

Raised(error) == [kind |-> "raised", error |-> error]

NoAchievements == [digest |-> NoDigest, heading |-> "", ai |-> <<>>]

\* generate_report is not running.
ReportIdle ==
    /\ issues = <<>>
    /\ persona = "team_lead"
    /\ gr_pc = "idle"
    /\ issues_dict = <<>>
    /\ df = <<>>
    /\ achieved_keys = <<>>
    /\ roots = <<>>
    /\ hierarchy_text = NoDigest
    /\ divisions = 0
    /\ external_calls = <<>>
    /\ gr_result = NoResult

\* No summary has been asked for: provider "None", no credential.
SummaryIdle ==
    /\ llm_provider = "None"
    /\ api_key = ""
    /\ groq_model = ""
    /\ provider_outcome = "none"
    /\ provider_calls = 0
    /\ ai_summary = NoResult
    /\ achievements_summary = NoAchievements

\* No report request is under way.
JudgeIdle ==
    /\ loop_state = "IDLE"
    /\ attempt = 0
    /\ report_text = -1
    /\ evaluation = NoEvaluation
    /\ validation_passed = FALSE
    /\ judge_response = NoResponse
    /\ generation_passes = 0
    /\ evaluations = <<>>
    /\ output = NoOutput

\* get_next_period_dates is not running.
PeriodIdle ==
    /\ current_period = <<>>
    /\ now = NoDate
    /\ next_period = NoResult

\* No query is being built.
JqlIdle ==
    /\ builder = "build_jql"
    /\ spaces = <<>>
    /\ labels = <<>>
    /\ time_field = "resolutiondate"
    /\ next_jql = NoResult

\* fetch_issues is not running.
FetchIdle ==
    /\ source_behaviour = "paged"
    /\ source_size = 0
    /\ fetcher = "app"
    /\ max_results = 0
    /\ fetched = <<>>
    /\ start_at = 0
    /\ requests = <<>>
    /\ fetch_failed = FALSE
    /\ fetch_pc = "idle"
    /\ fetch_result = NoResult

\* No preset file, no call made.
StoreIdle ==
    /\ presets_file = [exists |-> FALSE, members |-> <<>>]
    /\ preset_calls = <<>>
    /\ preset_result = NoResult
    /\ invocations = <<>>

InitJudge ==
    JudgeIdle /\ ReportIdle /\ SummaryIdle /\ PeriodIdle /\ JqlIdle /\ FetchIdle
        /\ StoreIdle

StartRequest_CarryOver ==
    /\ loop_state = "IDLE"
    /\ loop_state' = "GENERATE"
    /\ attempt' = attempt
    /\ report_text' = -1
    /\ evaluation' = NoEvaluation
    /\ validation_passed' = FALSE
    /\ judge_response' = NoResponse
    /\ generation_passes' = 0
    /\ evaluations' = <<>>
    /\ output' = NoOutput
    /\ UNCHANGED not_judge_vars

\* A user triggers a report generation with the judge enabled.
StartRequest ==
    /\ loop_state = "IDLE"
    /\ loop_state' = "GENERATE"
    /\ attempt' = 0
    /\ report_text' = -1
    /\ evaluation' = NoEvaluation
    /\ validation_passed' = FALSE
    /\ judge_response' = NoResponse
    /\ generation_passes' = 0
    /\ evaluations' = <<>>
    /\ output' = NoOutput
    /\ UNCHANGED not_judge_vars

\* GENERATE / REGENERATE: one full generation pass (4.3 - 4.6), then VALIDATE.
Generate ==
    /\ loop_state \in {"GENERATE", "REGENERATE"}
    /\ generation_passes < MaxPasses
    /\ report_text' = attempt
    /\ generation_passes' = generation_passes + 1
    /\ loop_state' = "VALIDATE"
    /\ judge_response' = NoResponse
    /\ UNCHANGED <<attempt, evaluation, validation_passed, evaluations, output,
                   not_judge_vars>>

Validate_KeepFirst(target) ==
    /\ loop_state = "VALIDATE"
    /\ judge_response' \in JudgeResponses
    /\ LET parsed == parse_judge_response(judge_response')
       IN /\ JudgeDecision(parsed.validation_status, attempt,
                           parsed.trustworthiness_score) = target
          /\ evaluation' = IF evaluation = NoEvaluation THEN parsed ELSE evaluation
          /\ evaluations' = Append(evaluations, parsed)
    /\ loop_state' = target
    /\ attempt' = IF target = "REGENERATE" THEN attempt + 1 ELSE attempt
    /\ validation_passed' = (target = "ACCEPT")
    /\ UNCHANGED <<report_text, generation_passes, output, not_judge_vars>>

\* VALIDATE: the judge answers, the answer is parsed into a fresh JudgeEvaluation,
\* and the transition `target' is taken.
Validate(target) ==
    /\ loop_state = "VALIDATE"
    /\ judge_response' \in JudgeResponses
    /\ LET parsed == parse_judge_response(judge_response')
       IN /\ JudgeDecision(parsed.validation_status, attempt,
                           parsed.trustworthiness_score) = target
          /\ evaluation' = parsed
          /\ evaluations' = Append(evaluations, parsed)
    /\ loop_state' = target
    /\ attempt' = IF target = "REGENERATE" THEN attempt + 1 ELSE attempt
    /\ validation_passed' = (target = "ACCEPT")
    /\ UNCHANGED <<report_text, generation_passes, output, not_judge_vars>>

Accept == Validate("ACCEPT")

Regenerate == Validate("REGENERATE")

GiveUp == Validate("GIVE_UP")

\* Terminal output: (report_text, ..., last JudgeEvaluation, validation_passed).
Return ==
    /\ loop_state \in TerminalStates
    /\ output' = [returned |-> TRUE, report_text |-> report_text,
                  evaluation |-> evaluation, validation_passed |-> validation_passed,
                  terminal |-> loop_state, regenerations |-> generation_passes - 1]
    /\ loop_state' = "IDLE"
    /\ UNCHANGED <<attempt, report_text, evaluation, validation_passed, judge_response,
                   generation_passes, evaluations, not_judge_vars>>

NextJudge ==
    \/ StartRequest
    \/ Generate
    \/ Accept
    \/ Regenerate
    \/ GiveUp
    \/ Return

SpecJudge == InitJudge /\ [][NextJudge]_vars

\* The steps of a request that is under way (synchronous, single-threaded).
RequestStep == Generate \/ Accept \/ Regenerate \/ GiveUp \/ Return

\* Every generation and judge call returns; a new request needs a user.
SpecJudgeFair == SpecJudge /\ WF_vars(RequestStep)

(***************************************************************************)
(* GENERATE_REPORT (src/app.py; src/jira_core.py holds the same function)  *)
(***************************************************************************)
\* Issue keys; a batch of n issues carries the first n of them.
KeyNames == <<"AWS-1", "AWS-2", "AWS-3", "AWS-4", "AWS-5", "AWS-6", "AWS-7", "AWS-8",
              "AWS-9", "AWS-10", "AWS-11", "AWS-12">>

\* Keys of the batches with parent/subtask links, and a key no batch holds.
TreeKeys == <<KeyNames[1], KeyNames[2]>>
OutsideKey == "EPIC-1"
LinkKeys == {TreeKeys[i] : i \in 1..Len(TreeKeys)} \cup {OutsideKey}

\* fields.get('parent') absent, fields.get('status') absent
NoParent == ""
NoStatus == ""

Personas == {"team_lead", "manager", "group_manager", "cto", "other"}

SummaryOf(key) == <<"summary of", key>>

\* Raw issues of the tracker, as far as generate_report reads them.
RawIssue(key, status, parent, subtasks) ==
    [key |-> key, summary |-> SummaryOf(key), status |-> status,
     parent |-> parent, subtasks |-> subtasks]

\* Batches without links: any mix of Done and not Done.
FlatBatches ==
    UNION {{[i \in 1..n |-> RawIssue(KeyNames[i], st[i], NoParent, <<>>)] :
                st \in [1..n -> {"Done", "In Progress"}]} : n \in 0..MaxFlat}

\* Subtask lists of at most two distinct keys.
SubtaskLists ==
    {<<>>} \cup {<<a>> : a \in LinkKeys}
           \cup {<<p[1], p[2]>> : p \in {q \in LinkKeys \X LinkKeys : q[1] # q[2]}}

LinkChoices ==
    [status : {"Done", "done", NoStatus}, parent : {NoParent} \cup LinkKeys,
     subtasks : SubtaskLists]

\* Batches with links, cycles among them: the tracker does not guarantee a DAG.
TreeBatches ==
    UNION {{[i \in 1..n |-> RawIssue(TreeKeys[i], c[i].status, c[i].parent, c[i].subtasks)] :
                c \in [1..n -> LinkChoices]} : n \in 0..Len(TreeKeys)}

Batches == FlatBatches \cup TreeBatches

Take_All(s, n) == s

\* s[:n]
Take(s, n) == SubSeq(s, 1, IF n < Len(s) THEN n ELSE Len(s))

Range(s) == {s[i] : i \in 1..Len(s)}

\* One row of issues_dict / df.
Normalize(issue) ==
    [Key |-> issue.key,
     Summary |-> issue.summary,
     Status |-> IF issue.status = NoStatus THEN "N/A" ELSE issue.status,
     Parent |-> issue.parent,
     Subtasks |-> issue.subtasks]

\* issues_dict.get(key, {}) read through row.get('Summary', 'N/A') and
\* row.get('Subtasks', [])
RowSummary(dict, key) == IF key \in DOMAIN dict THEN dict[key].Summary ELSE <<"N/A">>
RowSubtasks_Reversed(dict, key) ==
    IF key \in DOMAIN dict
    THEN [i \in 1..Len(dict[key].Subtasks) |->
             dict[key].Subtasks[Len(dict[key].Subtasks) + 1 - i]]
    ELSE <<>>

RowSubtasks(dict, key) == IF key \in DOMAIN dict THEN dict[key].Subtasks ELSE <<>>

\* df['Status'] == 'Done'
IsDone(row) == row.Status = "Done"

RootsOf_AbsentParentOnly(dict, achieved) ==
    LET IsRoot(key) == dict[key].Parent = NoParent
    IN SelectSeq(achieved, IsRoot)

\* roots = [key for key in achieved_keys if Parent is None or Parent not in achieved_keys]
RootsOf(dict, achieved) ==
    LET IsRoot(key) == \/ dict[key].Parent = NoParent
                       \/ dict[key].Parent \notin Range(achieved)
    IN SelectSeq(achieved, IsRoot)

RecursionError == [error |-> TRUE, text |-> <<>>]

\* The nested function of generate_report; indent counts the two-space steps,
\* which is also the depth of the call.
RECURSIVE build_hierarchical_text(_, _, _)
build_hierarchical_text(dict, keys, indent) ==
    IF indent >= RecursionLimit THEN RecursionError
    ELSE IF keys = <<>> THEN [error |-> FALSE, text |-> <<>>]
    ELSE LET key == Head(keys)
             line == [indent |-> indent, key |-> key, summary |-> RowSummary(dict, key)]
             below == build_hierarchical_text(dict, RowSubtasks(dict, key), indent + 1)
         IN IF below.error THEN RecursionError
            ELSE LET rest == build_hierarchical_text(dict, Tail(keys), indent)
                 IN IF rest.error THEN RecursionError
                    ELSE [error |-> FALSE, text |-> <<line>> \o below.text \o rest.text]

Percent_Truncated(k, n) == (100 * k) \div n

\* f"{k/n*100:.0f}": the quotient rounded to the nearest integer, a tie to the
\* even neighbour (the ties of the batches modelled here are exact in binary
\* floating point).  Only called with n > 0.
Percent(k, n) ==
    LET q == (100 * k) \div n
        r == (100 * k) % n
    IN IF 2 * r < n THEN q
       ELSE IF 2 * r > n THEN q + 1
       ELSE IF q % 2 = 0 THEN q ELSE q + 1

Summaries(dict, keys) == [i \in 1..Len(keys) |-> dict[keys[i]].Summary]

\* hierarchy_text of each persona branch.
PersonaDigest(who, dict, rows, achieved, rts) ==
    IF who = "manager"
    THEN [NoDigest EXCEPT !.kind = "manager", !.count = Len(achieved),
              !.summaries = Take(Summaries(dict, Take(achieved, 10)), 5),
              !.others = IF Len(achieved) > 5 THEN Len(achieved) - 5 ELSE 0]
    ELSE IF who = "group_manager"
    THEN [NoDigest EXCEPT !.kind = "group_manager", !.count = Len(achieved),
              !.total = Len(rows), !.pct = Percent(Len(achieved), Len(rows)),
              !.summaries = Summaries(dict, Take(rts, 3))]
    ELSE IF who = "cto"
    THEN [NoDigest EXCEPT !.kind = "cto", !.count = Len(achieved),
              !.summaries = Summaries(dict, Take(rts, 2))]
    ELSE [NoDigest EXCEPT !.kind = "hierarchy",
              !.lines = build_hierarchical_text(dict, rts, 0).text]

\* ---- the LLM summarizer ----
\* Provider tags: the choices of the provider selectbox and a tag outside them.
Providers == {"Groq (Free Tier)", "OpenAI", "xAI", "Gemini", "None", "Mistral"}
ApiKeys == {"", "sk-test"}
GroqModels == {"", "llama-3.3-70b-versatile"}

\* How a provider answers one call: a completion, HTTP 429, no answer within
\* the timeout, any other failure (connection, HTTP error, malformed body).
Outcomes == {"success", "rate_limit", "timeout", "error"}

\* Texts are sequences of pieces; the pictographs that open the messages are
\* left out, the one of the summary heading is written (book).
Content(provider) == <<"completion of ", provider>>
NO_GROQ_MODEL == <<"No Groq model selected">>
TIMEOUT_MESSAGE == <<"Request timeout. Try a different model.">>
RateLimitMessage(model) ==
    <<"Rate limit hit for ", model,
      ". Please select another model and regenerate the report.">>
GroqError(e) == <<"Error: ", e>>
AISummaryError(e) == <<"AI summary error: ", e>>

\* call_groq_llm: (response_text, is_rate_limited); every failure is caught.
call_groq_llm(outcome) ==
    IF outcome = "rate_limit" THEN [text |-> <<>>, rate_limited |-> TRUE]
    ELSE IF outcome = "timeout" THEN [text |-> TIMEOUT_MESSAGE, rate_limited |-> FALSE]
    ELSE IF outcome = "error" THEN [text |-> GroqError(outcome), rate_limited |-> FALSE]
    ELSE [text |-> Content("Groq (Free Tier)"), rate_limited |-> FALSE]

\* The OpenAI, xAI and Gemini branches: the completion, or the exception the
\* client library raises (for xAI the KeyError of reading 'choices' in a body
\* that holds none).
ProviderReply(provider, outcome) ==
    IF outcome = "success" THEN Returned(Content(provider)) ELSE Raised(outcome)

\* Whether get_llm_summary reaches a network call.
ReachesProvider(provider, model) ==
    \/ provider = "Groq (Free Tier)" /\ model # ""
    \/ provider \in {"OpenAI", "xAI", "Gemini"}

\* The body of the try block of get_llm_summary.
SummaryBody(provider, model, outcome) ==
    IF provider = "Groq (Free Tier)"
    THEN IF model = "" THEN Returned(NO_GROQ_MODEL)
         ELSE LET reply == call_groq_llm(outcome)
              IN IF reply.rate_limited THEN Returned(RateLimitMessage(model))
                 ELSE Returned(reply.text)
    ELSE IF provider \in {"OpenAI", "xAI", "Gemini"}
    THEN ProviderReply(provider, outcome)
    ELSE Returned(<<>>)

get_llm_summary_NoCatch(provider, model, outcome) == SummaryBody(provider, model, outcome)

\* get_llm_summary: the body, and `except Exception' around all of it.  (The
\* key and the prompt go to the provider and decide nothing here.)
get_llm_summary(provider, model, outcome) ==
    LET body == SummaryBody(provider, model, outcome)
    IN IF body.kind = "raised" THEN Returned(AISummaryError(body.error)) ELSE body

SummaryWanted_AnyProvider(key, achieved, provider) == key # "" /\ achieved # <<>>

\* if api_key and achieved_keys and llm_provider != "None"
SummaryWanted(key, achieved, provider) ==
    key # "" /\ achieved # <<>> /\ provider # "None"

\* achievements_summary once the summary is in: it stands in place of the
\* digest for the three management personas and below it for the others.
Deliver(who, digest, summary) ==
    IF who \in {"manager", "group_manager", "cto"}
    THEN [digest |-> NoDigest, heading |-> "(book) ", ai |-> summary]
    ELSE [digest |-> digest, heading |-> "(book) AI SUMMARY:", ai |-> summary]

\* achievements_summary = hierarchy_text
DigestOnly(digest) == [digest |-> digest, heading |-> "", ai |-> <<>>]

(***************************************************************************)
(* GET_NEXT_PERIOD_DATES (src/app.py; src/jira_core.py holds the same      *)
(* function)                                                               *)
(*                                                                         *)
(* A period text is the sequence of the pieces current_period.split(' to ')*)
(* yields: one piece when the text holds no " to ".  A piece is a word     *)
(* or three digit strings joined by "-"; a digit string is the sequence of *)
(* its digits, so "2025-1-5" and "2025-01-05" are different texts.         *)
(***************************************************************************)
Word(w) == [word |-> w, y |-> <<>>, m |-> <<>>, d |-> <<>>]

DateText(y, m, d) == [word |-> "", y |-> y, m |-> m, d |-> d]

\* Texts the function is applied to.
YearTexts == {<<2, 0, 2, 4>>, <<2, 0, 2, 5>>}
MonthTexts == {<<1>>, <<0, 1>>, <<0, 2>>, <<0, 3>>, <<1, 2>>, <<1, 3>>}
DayTexts == {<<1>>, <<0, 1>>, <<2, 8>>, <<2, 9>>, <<3, 0>>, <<3, 1>>, <<3, 2>>}
DateTexts == {DateText(y, m, d) : y \in YearTexts, m \in MonthTexts, d \in DayTexts}
Words == {Word("last_week"), Word("last_month"), Word(""), Word("next_week")}
SomePieces ==
    Words \cup {DateText(<<2, 0, 2, 5>>, <<1, 0>>, <<0, 1>>),
                DateText(<<2, 0, 2, 5>>, <<1, 0>>, <<0, 7>>)}
Periods ==
    {<<p>> : p \in Words \cup DateTexts}
        \cup {<<p, q>> : p \in DateTexts, q \in DateTexts}
        \cup {<<p, q>> : p \in SomePieces, q \in SomePieces}
        \cup {<<p, q, r>> : p \in SomePieces, q \in SomePieces, r \in SomePieces}

\* Dates datetime.now() may read.
Nows ==
    {[y |-> 2024, m |-> 2, d |-> 23], [y |-> 2024, m |-> 2, d |-> 29],
     [y |-> 2024, m |-> 12, d |-> 2], [y |-> 2024, m |-> 12, d |-> 28],
     [y |-> 2025, m |-> 1, d |-> 31], [y |-> 2025, m |-> 2, d |-> 22],
     [y |-> 2025, m |-> 10, d |-> 1]}

\* ---- the calendar of datetime ----
IsLeap(y) == y % 4 = 0 /\ (y % 100 # 0 \/ y % 400 = 0)

DaysInMonth(y, m) ==
    IF m = 2 THEN (IF IsLeap(y) THEN 29 ELSE 28)
    ELSE IF m \in {4, 6, 9, 11} THEN 30 ELSE 31

DaysBeforeYear(y) == 365 * (y - 1) + (y - 1) \div 4 - (y - 1) \div 100 + (y - 1) \div 400

RECURSIVE DaysBeforeMonth(_, _)
DaysBeforeMonth(y, m) ==
    IF m <= 1 THEN 0 ELSE DaysBeforeMonth(y, m - 1) + DaysInMonth(y, m - 1)

\* date.toordinal(): days since 0001-01-01, that day being 1.
ToOrdinal(date) == DaysBeforeYear(date.y) + DaysBeforeMonth(date.y, date.m) + date.d

\* date.fromordinal(n)
FromOrdinal(n) ==
    LET y == CHOOSE c \in (n \div 366)..(n \div 365 + 1) :
                 DaysBeforeYear(c) < n /\ n <= DaysBeforeYear(c + 1)
        r == n - DaysBeforeYear(y)
        m == CHOOSE c \in 1..12 :
                 DaysBeforeMonth(y, c) < r /\ r <= DaysBeforeMonth(y, c) + DaysInMonth(y, c)
    IN [y |-> y, m |-> m, d |-> r - DaysBeforeMonth(y, m)]

AddDays_ThirtyDayMonths(date, n) ==
    LET t == (date.y * 12 + (date.m - 1)) * 30 + (date.d - 1) + n
    IN [y |-> t \div 360, m |-> ((t % 360) \div 30) + 1, d |-> (t % 30) + 1]

\* date + timedelta(days=n).  (The years modelled keep every sum inside
\* datetime's range of years 1..9999.)
AddDays(date, n) == FromOrdinal(ToOrdinal(date) + n)

\* (end_date - start_date).days
DaysBetween(start, end) == ToOrdinal(end) - ToOrdinal(start)

\* ---- text <-> date ----
RECURSIVE DigitsValue(_)
DigitsValue(t) ==
    IF t = <<>> THEN 0 ELSE 10 * DigitsValue(SubSeq(t, 1, Len(t) - 1)) + t[Len(t)]

Pad2(n) == <<n \div 10, n % 10>>

Pad4(n) == <<n \div 1000, (n \div 100) % 10, (n \div 10) % 10, n % 10>>

\* date.strftime('%Y-%m-%d')
strftime(date) == DateText(Pad4(date.y), Pad2(date.m), Pad2(date.d))

\* datetime.strptime(piece, '%Y-%m-%d'): %Y takes four digits, %m and %d one
\* or two; the date must exist.
strptime(piece) ==
    LET y == DigitsValue(piece.y)
        m == DigitsValue(piece.m)
        d == DigitsValue(piece.d)
        ok == /\ piece.word = ""
              /\ Len(piece.y) = 4 /\ y >= 1
              /\ Len(piece.m) \in {1, 2} /\ m \in 1..12
              /\ Len(piece.d) \in {1, 2} /\ d \in 1..31
              /\ d <= DaysInMonth(y, m)
    IN IF ok THEN [error |-> FALSE, date |-> [y |-> y, m |-> m, d |-> d]]
       ELSE [error |-> TRUE, date |-> NoDate]

\* The function, today being what datetime.now() reads.
get_next_period_dates(period, today) ==
    IF period = <<Word("last_week")>>
    THEN Returned(<<strftime(today), strftime(AddDays(today, 7))>>)
    ELSE IF period = <<Word("last_month")>>
    THEN Returned(<<strftime(today), strftime(AddDays(today, 30))>>)
    ELSE IF Len(period) >= 2
    THEN IF Len(period) # 2
         THEN Raised("ValueError")
         ELSE LET start == strptime(period[1])
                  end == strptime(period[2])
              IN IF start.error \/ end.error
                 THEN Raised("ValueError")
                 ELSE Returned(<<strftime(end.date),
                                 strftime(AddDays(end.date,
                                                  DaysBetween(start.date, end.date)))>>)
    ELSE Raised("ValueError")

\* ---- the query builders ----
\* spaces and labels, as the lists their split(',') yields ("" and None: no
\* name at all)
SpacesArgs == {<<>>, <<"AWS">>, <<"AWS", "Cloud Migration">>}
LabelsArgs == {<<>>, <<"security">>}
TimeFields == {"resolutiondate", "duedate"}
Builders == {"build_jql", "JQLBuilder.for_achievements", "JQLBuilder.for_next_steps"}

\* The date field a builder filters on.
FieldsOf(b) ==
    IF b = "JQLBuilder.for_achievements" THEN {"resolutiondate"}
    ELSE IF b = "JQLBuilder.for_next_steps" THEN {"duedate"}
    ELSE TimeFields

NamesWithSpace == {"Cloud Migration"}

\* f'"{p}"' if ' ' in p else p
QuoteProject(p) == [name |-> p, quoted |-> p \in NamesWithSpace]

\* 'project = X' for one name, 'project in (X, Y)' for several
ProjectClause(names) ==
    [clause |-> "project", op |-> IF Len(names) = 1 THEN "=" ELSE "in",
     values |-> [i \in 1..Len(names) |-> QuoteProject(names[i])]]

\* 'labels IN ("a", "b")'
LabelsClause(names) ==
    [clause |-> "labels", op |-> "IN",
     values |-> [i \in 1..Len(names) |-> [name |-> names[i], quoted |-> TRUE]]]

\* '<field> >= <piece>'
SinceClause(field, start) == <<[clause |-> field, op |-> ">=", value |-> start]>>

\* '<field> >= <start> AND <field> <= <end>', of the pieces as they are written
BetweenClause(field, start, end) ==
    <<[clause |-> field, op |-> ">=", value |-> start],
      [clause |-> field, op |-> "<=", value |-> end]>>

PROJECT_IS_NOT_EMPTY == <<[clause |-> "project", op |-> "IS NOT EMPTY", values |-> <<>>]>>

\* The `if time_period:' block: the clauses it appends, or the exception of
\* `start, end = time_period.split(' to ')' when the text holds more than one
\* " to ".
DatePart(time_period, field, today) ==
    IF time_period = <<Word("")>> THEN Returned(<<>>)
    ELSE IF time_period = <<Word("last_week")>>
    THEN Returned(SinceClause(field, strftime(AddDays(today, 0 - 7))))
    ELSE IF time_period = <<Word("last_month")>>
    THEN Returned(SinceClause(field, strftime(AddDays(today, 0 - 30))))
    ELSE IF Len(time_period) >= 2
    THEN IF Len(time_period) # 2
         THEN Raised("ValueError")
         ELSE Returned(BetweenClause(field, time_period[1], time_period[2]))
    ELSE Returned(<<>>)

\* build_jql; JQLBuilder.for_achievements and JQLBuilder.for_next_steps are
\* the same code with the field fixed.
build_jql(names, tags, time_period, field, today) ==
    LET part == DatePart(time_period, field, today)
        jql_parts == (IF names # <<>> THEN <<ProjectClause(names)>> ELSE <<>>)
                         \o (IF tags # <<>> THEN <<LabelsClause(tags)>> ELSE <<>>)
                         \o (IF part.kind = "returned" THEN part.text ELSE <<>>)
    IN IF part.kind = "raised" THEN part
       ELSE Returned(IF jql_parts # <<>> THEN jql_parts ELSE PROJECT_IS_NOT_EMPTY)

\* One of the operations that read a period text is about to be called.
InitPeriod ==
    /\ JudgeIdle
    /\ StoreIdle
    /\ ReportIdle
    /\ SummaryIdle
    /\ FetchIdle
    /\ JqlIdle
    /\ current_period \in Periods
    /\ now = NoDate
    /\ next_period = NoResult

\* One call: the clock is read in the two keyword branches only.
GetNextPeriodDates ==
    /\ next_period = NoResult
    /\ next_jql = NoResult
    /\ IF current_period \in {<<Word("last_week")>>, <<Word("last_month")>>}
       THEN now' \in Nows
       ELSE now' = now
    /\ next_period' = get_next_period_dates(current_period, now')
    /\ UNCHANGED <<current_period, jql_vars, not_period_vars>>

\* One call of a query builder with the period text.
BuildJql ==
    /\ next_period = NoResult
    /\ next_jql = NoResult
    /\ builder' \in Builders
    /\ time_field' \in FieldsOf(builder')
    /\ spaces' \in SpacesArgs
    /\ labels' \in LabelsArgs
    /\ IF current_period \in {<<Word("last_week")>>, <<Word("last_month")>>}
       THEN now' \in Nows
       ELSE now' = now
    /\ next_jql' = build_jql(spaces', labels', current_period, time_field', now')
    /\ UNCHANGED <<current_period, next_period, not_period_vars>>

NextPeriod ==
    \/ GetNextPeriodDates
    \/ BuildJql

SpecPeriod == InitPeriod /\ [][NextPeriod]_vars

(***************************************************************************)
(* GENERATE_REPORT, step by step (src/app.py 394-558)                      *)
(*                                                                         *)
(* The requests the call makes are recorded in external_calls:             *)
(* "epic_context" (get_epic_context), "llm" (the provider call inside      *)
(* get_llm_summary) and "next_issues" (fetch_issues with the next-period   *)
(* query).  get_epic_context and fetch_issues catch what their requests    *)
(* raise and return a value.  The prior-progress line reads the Resolved   *)
(* dates, which the issues modelled here do not carry; it is left out past  *)
(* the parsing of the period end it starts with.                           *)
(***************************************************************************)
NoIssuesResult ==
    [kind |-> "returned", report |-> [section |-> "no_issues"], df |-> <<>>, next_df |-> <<>>]

\* The arguments of a call whose period is an explicit range.
DefaultPeriod ==
    <<DateText(<<2, 0, 2, 5>>, <<1, 0>>, <<0, 1>>), DateText(<<2, 0, 2, 5>>, <<1, 0>>, <<0, 7>>)>>

\* period_end: the clock for the two keywords, else
\* strptime(current_period.split(' to ')[1], '%Y-%m-%d')
PeriodEnd(period) ==
    IF period \in {<<Word("last_week")>>, <<Word("last_month")>>} THEN Returned(<<>>)
    ELSE IF Len(period) < 2 THEN Raised("IndexError")
    ELSE IF strptime(period[2]).error THEN Raised("ValueError")
    ELSE Returned(<<period[2]>>)

\* What fetch_issues may hand back for the next period.
NextIssues ==
    {<<>>, <<[key |-> "AWS-20", status |-> "To Do"]>>, <<[key |-> "AWS-21", status |-> "Done"]>>}

\* next_df[next_df['Status'].isin(['To Do', 'In Progress'])]
Upcoming(next_df) ==
    LET IsUpcoming(row) == row.status \in {"To Do", "In Progress"}
    IN SelectSeq(next_df, IsUpcoming)

\* The arguments besides the batch, the persona and the LLM settings.
DefaultArgs ==
    /\ current_period = DefaultPeriod
    /\ now = NoDate
    /\ next_period = NoResult
    /\ builder = "build_jql"
    /\ spaces = <<"AWS">>
    /\ labels = <<>>
    /\ time_field = "resolutiondate"
    /\ next_jql = NoResult

\* generate_report has been called with a batch and a persona.
InitReport ==
    /\ JudgeIdle
    /\ StoreIdle
    /\ FetchIdle
    /\ SummaryIdle
    /\ DefaultArgs
    /\ issues \in Batches
    /\ persona \in Personas
    /\ gr_pc = "called"
    /\ issues_dict = <<>>
    /\ df = <<>>
    /\ achieved_keys = <<>>
    /\ roots = <<>>
    /\ hierarchy_text = NoDigest
    /\ divisions = 0
    /\ external_calls = <<>>
    /\ gr_result = NoResult

\* if not issues: return "No issues found", DataFrame(), DataFrame()
GR_NoIssues ==
    /\ gr_pc = "called"
    /\ issues = <<>>
    /\ gr_result' = NoIssuesResult
    /\ gr_pc' = "done"
    /\ UNCHANGED <<issues, persona, issues_dict, df, achieved_keys, roots, hierarchy_text,
                   divisions, external_calls, llm_vars, period_vars, jql_vars,
                   not_report_vars>>

\* Build issues_dict and df, filter the achieved rows, derive the roots; ask
\* the tracker for the epic context when there is a root; parse the end of
\* the period.
GR_Normalize ==
    /\ gr_pc = "called"
    /\ issues # <<>>
    /\ LET rows == [i \in 1..Len(issues) |-> Normalize(issues[i])]
           dict == [k \in {issues[i].key : i \in 1..Len(issues)} |->
                       Normalize(issues[CHOOSE i \in 1..Len(issues) :
                           /\ issues[i].key = k
                           /\ \A j \in 1..Len(issues) : issues[j].key = k => j <= i])]
           achieved == [i \in 1..Len(SelectSeq(rows, IsDone)) |->
                           SelectSeq(rows, IsDone)[i].Key]
       IN /\ df' = rows
          /\ issues_dict' = dict
          /\ achieved_keys' = achieved
          /\ roots' = RootsOf(dict, achieved)
    /\ external_calls' = IF roots' # <<>> THEN Append(external_calls, "epic_context")
                         ELSE external_calls
    /\ IF PeriodEnd(current_period).kind = "raised"
       THEN gr_result' = PeriodEnd(current_period) /\ gr_pc' = "done"
       ELSE gr_pc' = "persona" /\ UNCHANGED gr_result
    /\ UNCHANGED <<issues, persona, hierarchy_text, divisions, llm_vars, period_vars,
                   jql_vars, not_report_vars>>

\* Persona-specific formatting; the hierarchy branches recurse.
GR_Persona ==
    /\ gr_pc = "persona"
    /\ IF /\ persona \notin {"manager", "group_manager", "cto"}
          /\ build_hierarchical_text(issues_dict, roots, 0).error
       THEN /\ gr_result' = [kind |-> "raised", error |-> "RecursionError"]
            /\ gr_pc' = "done"
            /\ UNCHANGED <<hierarchy_text, divisions>>
       ELSE IF persona = "group_manager" /\ Len(df) = 0
       THEN /\ gr_result' = [kind |-> "raised", error |-> "ZeroDivisionError"]
            /\ gr_pc' = "done"
            /\ divisions' = divisions + 1
            /\ UNCHANGED hierarchy_text
       ELSE /\ hierarchy_text' = PersonaDigest(persona, issues_dict, df, achieved_keys, roots)
            /\ divisions' = IF persona = "group_manager" THEN divisions + 1 ELSE divisions
            /\ gr_pc' = "summary"
            /\ UNCHANGED gr_result
    /\ UNCHANGED <<issues, persona, issues_dict, df, achieved_keys, roots, external_calls,
                   llm_vars, period_vars, jql_vars, not_report_vars>>

\* The AI summary: get_llm_summary is called under the guard only, and what
\* it returns goes into the delivered section.
GR_Summary ==
    /\ gr_pc = "summary"
    /\ IF SummaryWanted(api_key, achieved_keys, llm_provider)
       THEN /\ provider_outcome' \in IF ReachesProvider(llm_provider, groq_model)
                                     THEN Outcomes ELSE {"none"}
            /\ provider_calls' = IF ReachesProvider(llm_provider, groq_model)
                                 THEN provider_calls + 1 ELSE provider_calls
            /\ external_calls' = IF ReachesProvider(llm_provider, groq_model)
                                 THEN Append(external_calls, "llm") ELSE external_calls
            /\ ai_summary' = get_llm_summary(llm_provider, groq_model, provider_outcome')
            /\ IF ai_summary'.kind = "raised"
               THEN /\ gr_result' = ai_summary'
                    /\ gr_pc' = "done"
                    /\ UNCHANGED achievements_summary
               ELSE /\ achievements_summary' = Deliver(persona, hierarchy_text, ai_summary'.text)
                    /\ gr_pc' = "assemble"
                    /\ UNCHANGED gr_result
       ELSE /\ achievements_summary' = DigestOnly(hierarchy_text)
            /\ gr_pc' = "assemble"
            /\ UNCHANGED <<provider_outcome, provider_calls, external_calls, ai_summary,
                           gr_result>>
    /\ UNCHANGED <<issues, persona, issues_dict, df, achieved_keys, roots, hierarchy_text,
                   divisions, llm_provider, api_key, groq_model, period_vars, jql_vars,
                   not_report_vars>>

\* The next steps, the METRICS line and the return: the next period is
\* computed from the period text, the query for it is built and sent, and the
\* report is assembled around the delivered section.
GR_Assemble ==
    /\ gr_pc = "assemble"
    /\ IF current_period \in {<<Word("last_week")>>, <<Word("last_month")>>}
       THEN now' \in Nows
       ELSE now' = now
    /\ next_period' = get_next_period_dates(current_period, now')
    /\ IF next_period'.kind = "raised"
       THEN /\ gr_result' = next_period'
            /\ UNCHANGED <<time_field, next_jql, external_calls, divisions>>
       ELSE /\ time_field' = "duedate"
            /\ next_jql' = build_jql(spaces, labels, next_period'.text, time_field', now')
            /\ IF next_jql'.kind = "raised"
               THEN /\ gr_result' = next_jql'
                    /\ UNCHANGED <<external_calls, divisions>>
               ELSE /\ external_calls' = Append(external_calls, "next_issues")
                    /\ divisions' = divisions + 1
                    /\ \E next_issues \in NextIssues :
                           gr_result' =
                               IF Len(df) = 0
                               THEN [kind |-> "raised", error |-> "ZeroDivisionError"]
                               ELSE [kind |-> "returned",
                                     report |->
                                         [section |-> "full",
                                          achievements_summary |-> achievements_summary,
                                          total_issues |-> Len(df),
                                          completed |-> Len(SelectSeq(df, IsDone)),
                                          completion_pct |->
                                              Percent(Len(SelectSeq(df, IsDone)), Len(df)),
                                          next_steps |-> Take(Upcoming(next_issues), 5)],
                                     df |-> df,
                                     next_df |-> next_issues]
    /\ gr_pc' = "done"
    /\ UNCHANGED <<issues, persona, issues_dict, df, achieved_keys, roots, hierarchy_text,
                   llm_vars, current_period, builder, spaces, labels, not_report_vars>>

NextReport ==
    \/ GR_NoIssues
    \/ GR_Normalize
    \/ GR_Persona
    \/ GR_Summary
    \/ GR_Assemble

SpecReport == InitReport /\ [][NextReport]_vars

\* Batches of at most two issues.
SummaryBatches == {b \in FlatBatches : Len(b) <= 2}

\* generate_report or get_llm_summary is about to be called with a provider
\* tag, a credential and a Groq model.
InitSummary ==
    /\ JudgeIdle
    /\ StoreIdle
    /\ FetchIdle
    /\ DefaultArgs
    /\ issues \in SummaryBatches
    /\ persona \in Personas
    /\ gr_pc = "called"
    /\ issues_dict = <<>>
    /\ df = <<>>
    /\ achieved_keys = <<>>
    /\ roots = <<>>
    /\ hierarchy_text = NoDigest
    /\ divisions = 0
    /\ external_calls = <<>>
    /\ gr_result = NoResult
    /\ llm_provider \in Providers
    /\ api_key \in ApiKeys
    /\ groq_model \in GroqModels
    /\ provider_outcome = "none"
    /\ provider_calls = 0
    /\ ai_summary = NoResult
    /\ achievements_summary = NoAchievements

\* get_llm_summary called on its own, as the tests call it.
GetLLMSummary ==
    /\ gr_pc = "called"
    /\ provider_outcome' \in IF ReachesProvider(llm_provider, groq_model)
                              THEN Outcomes ELSE {"none"}
    /\ provider_calls' = IF ReachesProvider(llm_provider, groq_model)
                          THEN provider_calls + 1 ELSE provider_calls
    /\ ai_summary' = get_llm_summary(llm_provider, groq_model, provider_outcome')
    /\ gr_pc' = "summarized"
    /\ UNCHANGED <<issues, persona, issues_dict, df, achieved_keys, roots, hierarchy_text,
                   divisions, external_calls, gr_result, llm_provider, api_key, groq_model,
                   achievements_summary, period_vars, jql_vars, not_report_vars>>

NextSummary ==
    \/ NextReport
    \/ GetLLMSummary

SpecSummary == InitSummary /\ [][NextSummary]_vars

\* ---- generate_report with any period text ----
\* Nothing, an achieved issue or an issue in progress.
CallBatches ==
    {<<>>} \cup {<<RawIssue(KeyNames[1], st, NoParent, <<>>)>> : st \in {"Done", "In Progress"}}

\* Period texts of one, two and three pieces, words and dates.
CallPeriods ==
    {<<p>> : p \in SomePieces}
        \cup {<<p, q>> : p \in SomePieces, q \in SomePieces}
        \cup {<<p, q, r>> : p \in SomePieces, q \in SomePieces, r \in SomePieces}

\* generate_report has been called with a period text of any shape.
InitCall ==
    /\ JudgeIdle
    /\ StoreIdle
    /\ FetchIdle
    /\ issues \in CallBatches
    /\ persona \in {"team_lead", "manager"}
    /\ gr_pc = "called"
    /\ issues_dict = <<>>
    /\ df = <<>>
    /\ achieved_keys = <<>>
    /\ roots = <<>>
    /\ hierarchy_text = NoDigest
    /\ divisions = 0
    /\ external_calls = <<>>
    /\ gr_result = NoResult
    /\ llm_provider \in {"None", "OpenAI"}
    /\ api_key \in ApiKeys
    /\ groq_model = ""
    /\ provider_outcome = "none"
    /\ provider_calls = 0
    /\ ai_summary = NoResult
    /\ achievements_summary = NoAchievements
    /\ current_period \in CallPeriods
    /\ now = NoDate
    /\ next_period = NoResult
    /\ builder = "build_jql"
    /\ spaces = <<"AWS">>
    /\ labels = <<>>
    /\ time_field = "resolutiondate"
    /\ next_jql = NoResult

SpecCall == InitCall /\ [][NextReport]_vars

(***************************************************************************)
(* FETCH_ISSUES (src/app.py) and JiraClient.fetch_issues (src/jira_core.py)*)
(*                                                                         *)
(* A paged source holds the issues 1..source_size of the query, in that     *)
(* order, serves the page asked for and reports the total.  Any other       *)
(* source answers a request with up to 50 issues and whatever total.  A    *)
(* request may also fail.                                                  *)
(***************************************************************************)
\* max_results = 50 in fetch_issues, page_size = 50 in JiraClient.fetch_issues
page_size == 50

\* max_results: int = 1000
DEFAULT_MAX_RESULTS == 1000

\* Sources above the default cap of JiraClient.fetch_issues, and at it.
LargeSources == {1000, 1001, 1075}

SourceSizes == (0..MaxSource) \cup LargeSources

Min(a, b) == IF a < b THEN a ELSE b

\* jira.jql(jql, start=start, limit=limit)
SourcePage(size, start, limit) ==
    [issues |-> [i \in 1..Min(limit, IF size > start THEN size - start ELSE 0) |-> start + i],
     total |-> size]

FetchStop_NoTotal(count, total, batch_len) == batch_len < page_size

\* if len(issues) >= total or len(batch) < page_size: break
FetchStop(count, total, batch_len) == count >= total \/ batch_len < page_size

\* Values of the max_results argument of JiraClient.fetch_issues.
MaxResultsArgs == {0, 1, page_size, 75, 2 * page_size, DEFAULT_MAX_RESULTS}

\* Lengths of the pages of a source that answers as it likes.
PageLengths == {0, 25, page_size}

\* What such a source reports as total, the count fetched so far being
\* `count': nothing, exactly the count, or more than the count.
TotalsReported(count) == {0, count, count + 1}

\* A call that is still in its loop after MaxRequests requests goes on the
\* same way for ever: from there the model keeps the MaxRequests most recent
\* offsets and pages, and counts the offset modulo two pages.
MostRecent(s, n) == IF Len(s) > n THEN SubSeq(s, Len(s) - n + 1, Len(s)) ELSE s

Folded(offset) ==
    IF offset > MaxRequests * page_size THEN offset - 2 * page_size ELSE offset

AnyPage(start, len, total) == [issues |-> [i \in 1..len |-> start + i], total |-> total]

\* fetch_issues has been called.
InitFetch ==
    /\ JudgeIdle
    /\ StoreIdle
    /\ ReportIdle
    /\ SummaryIdle
    /\ PeriodIdle
    /\ JqlIdle
    /\ source_behaviour \in {"paged", "any"}
    /\ source_size \in IF source_behaviour = "paged" THEN SourceSizes ELSE {0}
    /\ fetcher \in {"app", "JiraClient"}
    /\ max_results \in IF fetcher = "JiraClient" THEN MaxResultsArgs
                        ELSE {DEFAULT_MAX_RESULTS}
    /\ fetched = <<>>
    /\ start_at = 0
    /\ requests = <<>>
    /\ fetch_failed = FALSE
    /\ fetch_pc = "loop"
    /\ fetch_result = NoResult

\* One turn of the loop: request a page, extend the list, stop or move on.
\* An exception ends the loop of fetch_issues and leaves JiraClient.fetch_issues.
FetchPage ==
    /\ fetch_pc = "loop"
    /\ fetcher = "JiraClient" => Len(fetched) < max_results
    /\ requests' = MostRecent(Append(requests, start_at), MaxRequests)
    /\ fetch_failed' \in BOOLEAN
    /\ IF fetch_failed'
       THEN /\ IF fetcher = "app"
               THEN fetch_pc' = "break" /\ UNCHANGED fetch_result
               ELSE fetch_pc' = "done" /\ fetch_result' = Raised("Exception")
            /\ UNCHANGED <<fetched, start_at>>
       ELSE \E len \in PageLengths :
            \E total \in TotalsReported(Len(fetched) + len) :
                LET result == IF source_behaviour = "paged"
                              THEN SourcePage(source_size, start_at, page_size)
                              ELSE AnyPage(start_at, len, total)
                    batch == result.issues
                IN /\ UNCHANGED fetch_result
                   /\ IF batch = <<>>
                      THEN fetch_pc' = "break" /\ UNCHANGED <<fetched, start_at>>
                      ELSE /\ fetched' = MostRecent(fetched \o batch, MaxRequests * page_size)
                           /\ IF FetchStop(Len(fetched \o batch), result.total, Len(batch))
                              THEN fetch_pc' = "break" /\ UNCHANGED start_at
                              ELSE /\ fetch_pc' = "loop"
                                   /\ start_at' = Folded(start_at + page_size)
    /\ UNCHANGED <<source_behaviour, source_size, fetcher, max_results, not_fetch_vars>>

\* return issues, after a break or when the loop condition of
\* JiraClient.fetch_issues fails.
FetchReturn ==
    /\ \/ fetch_pc = "break"
       \/ fetch_pc = "loop" /\ fetcher = "JiraClient" /\ Len(fetched) >= max_results
    /\ fetch_result' = [kind |-> "returned", issues |-> fetched]
    /\ fetch_pc' = "done"
    /\ UNCHANGED <<source_behaviour, source_size, fetcher, max_results, fetched, start_at,
                   requests, fetch_failed, not_fetch_vars>>

NextFetch ==
    \/ FetchPage
    \/ FetchReturn

SpecFetch == InitFetch /\ [][NextFetch]_vars

\* Every page request returns or raises, and the function goes on from there.
SpecFetchFair == SpecFetch /\ WF_vars(NextFetch)

(***************************************************************************)
(* PRESET STORAGE (src/storage.py; src/app.py holds the same functions)    *)
(*                                                                         *)
(* jira_presets.json holds one JSON object; its members are kept here as   *)
(* the sequence of (name, criteria) in the order json.dump writes them,    *)
(* which is the order of the dict json.load builds.  The calls run one     *)
(* after another and the file system does what it is asked.                *)
(***************************************************************************)
PresetNames == {"preset1", "preset2"}

Criterias == {[test |-> 1], [test |-> 2]}

\* None
NoCriteria == [none |-> TRUE]

\* presets = json.load(f) if the file exists, else {}
ReadPresets(file) == IF file.exists THEN file.members ELSE <<>>

HasPreset(members, name) == \E i \in 1..Len(members) : members[i].name = name

SetPreset_Overwrite(members, name, criteria) == <<[name |-> name, criteria |-> criteria]>>

\* presets[preset_name] = criteria: in place when the name is there, at the
\* end otherwise.
SetPreset(members, name, criteria) ==
    IF HasPreset(members, name)
    THEN [i \in 1..Len(members) |->
             IF members[i].name = name THEN [name |-> name, criteria |-> criteria]
             ELSE members[i]]
    ELSE Append(members, [name |-> name, criteria |-> criteria])

\* del presets[preset_name]
DelPreset(members, name) ==
    LET Other(member) == member.name # name IN SelectSeq(members, Other)

\* load_criteria: None without a file, presets.get(preset_name) otherwise.
load_criteria(file, name) ==
    IF ~file.exists THEN NoCriteria
    ELSE IF HasPreset(file.members, name)
    THEN file.members[CHOOSE i \in 1..Len(file.members) : file.members[i].name = name].criteria
    ELSE NoCriteria

\* get_all_presets: [] without a file, list(presets.keys()) otherwise.
get_all_presets(file) ==
    IF ~file.exists THEN <<>>
    ELSE [i \in 1..Len(file.members) |-> file.members[i].name]

InitPresets ==
    /\ JudgeIdle
    /\ ReportIdle
    /\ SummaryIdle
    /\ PeriodIdle
    /\ JqlIdle
    /\ FetchIdle
    /\ presets_file = [exists |-> FALSE, members |-> <<>>]
    /\ preset_calls = <<>>
    /\ preset_result = NoResult
    /\ invocations = <<>>

\* save_criteria(preset_name, criteria): read, set, write back; True.
SaveCriteria ==
    /\ Len(preset_calls) < MaxCalls
    /\ preset_calls' \in {Append(preset_calls, [op |-> "save", name |-> n, criteria |-> c]) :
                             n \in PresetNames, c \in Criterias}
    /\ LET call == preset_calls'[Len(preset_calls')]
       IN /\ presets_file' =
                 [exists |-> TRUE,
                  members |-> SetPreset(ReadPresets(presets_file), call.name, call.criteria)]
          /\ preset_result' = [op |-> "save", name |-> call.name, value |-> TRUE]
    /\ UNCHANGED <<invocations, not_store_vars>>

\* delete_preset(preset_name): nothing without a file; the file is written
\* back only when the name was in it.
DeletePreset ==
    /\ Len(preset_calls) < MaxCalls
    /\ preset_calls' \in {Append(preset_calls, [op |-> "delete", name |-> n,
                                                criteria |-> NoCriteria]) : n \in PresetNames}
    /\ LET call == preset_calls'[Len(preset_calls')]
       IN /\ presets_file' =
                 IF presets_file.exists /\ HasPreset(presets_file.members, call.name)
                 THEN [exists |-> TRUE, members |-> DelPreset(presets_file.members, call.name)]
                 ELSE presets_file
          /\ preset_result' = [op |-> "delete", name |-> call.name, value |-> NoCriteria]
    /\ UNCHANGED <<invocations, not_store_vars>>

\* load_criteria(preset_name)
LoadCriteria ==
    /\ preset_result' \in {[op |-> "load", name |-> n, value |-> load_criteria(presets_file, n)] :
                              n \in PresetNames}
    /\ UNCHANGED <<presets_file, preset_calls, invocations, not_store_vars>>

\* get_all_presets()
GetAllPresets ==
    /\ preset_result' = [op |-> "list", name |-> "", value |-> get_all_presets(presets_file)]
    /\ UNCHANGED <<presets_file, preset_calls, invocations, not_store_vars>>

NextPresets ==
    \/ SaveCriteria
    \/ DeletePreset
    \/ LoadCriteria
    \/ GetAllPresets

SpecPresets == InitPresets /\ [][NextPresets]_vars

\* ---- two invocations at the same time ----
\* Each invocation is its own Streamlit script run; nothing orders the file
\* reads and writes of one against those of the other.  An open(..., 'w')
\* with its json.dump is taken as one step here, so a reader never finds a
\* half-written file.
\* The file after calls made one after another.
RECURSIVE FileAfter(_)
FileAfter(calls) ==
    IF calls = <<>> THEN [exists |-> FALSE, members |-> <<>>]
    ELSE LET file == FileAfter(SubSeq(calls, 1, Len(calls) - 1))
             call == calls[Len(calls)]
         IN IF call.op = "save"
            THEN [exists |-> TRUE,
                  members |-> SetPreset(ReadPresets(file), call.name, call.criteria)]
            ELSE IF file.exists /\ HasPreset(file.members, call.name)
            THEN [exists |-> TRUE, members |-> DelPreset(file.members, call.name)]
            ELSE file

SaveCall(n, c) == [op |-> "save", name |-> n, criteria |-> c]
DeleteCall(n) == [op |-> "delete", name |-> n, criteria |-> NoCriteria]

\* What was saved before the two invocations start.
EarlierCalls ==
    {<<>>} \cup {<<SaveCall(n, [test |-> 1])>> : n \in PresetNames}
           \cup {<<SaveCall("preset1", [test |-> 1]), SaveCall("preset2", [test |-> 1])>>}

Invocation(call) == [call |-> call, pc |-> "called", presets |-> <<>>, returned |-> NoResult]

\* A save_criteria and, on another name, a save_criteria or a delete_preset.
InvocationPairs ==
    {<<Invocation(SaveCall(n1, c1)), Invocation(second)>> :
        n1 \in PresetNames, c1 \in Criterias,
        second \in {SaveCall(n, c) : n \in PresetNames, c \in Criterias}
                       \cup {DeleteCall(n) : n \in PresetNames}}

InitRace ==
    /\ JudgeIdle
    /\ ReportIdle
    /\ SummaryIdle
    /\ PeriodIdle
    /\ JqlIdle
    /\ FetchIdle
    /\ preset_calls \in EarlierCalls
    /\ presets_file = FileAfter(preset_calls)
    /\ preset_result = NoResult
    /\ invocations \in {pair \in InvocationPairs : pair[1].call.name # pair[2].call.name}

\* The first half of save_criteria and of delete_preset: the existence test,
\* json.load and the change of the local dict.  delete_preset returns here
\* without a file or without the name.
ReadStep(p) ==
    /\ p \in DOMAIN invocations
    /\ invocations[p].pc = "called"
    /\ LET call == invocations[p].call
       IN IF call.op = "save"
          THEN invocations' =
                   [invocations EXCEPT
                       ![p].pc = "write",
                       ![p].presets = SetPreset(ReadPresets(presets_file), call.name,
                                                call.criteria)]
          ELSE IF presets_file.exists /\ HasPreset(presets_file.members, call.name)
          THEN invocations' =
                   [invocations EXCEPT
                       ![p].pc = "write",
                       ![p].presets = DelPreset(presets_file.members, call.name)]
          ELSE invocations' =
                   [invocations EXCEPT
                       ![p].pc = "done",
                       ![p].returned = [op |-> "delete", name |-> call.name,
                                        value |-> NoCriteria]]
    /\ UNCHANGED <<presets_file, preset_calls, preset_result, not_store_vars>>

\* The second half: json.dump of the local dict over the file, and return.
WriteStep(p) ==
    /\ p \in DOMAIN invocations
    /\ invocations[p].pc = "write"
    /\ presets_file' = [exists |-> TRUE, members |-> invocations[p].presets]
    /\ invocations' =
           [invocations EXCEPT
               ![p].pc = "done",
               ![p].returned =
                   [op |-> invocations[p].call.op, name |-> invocations[p].call.name,
                    value |-> IF invocations[p].call.op = "save" THEN TRUE ELSE NoCriteria]]
    /\ UNCHANGED <<preset_calls, preset_result, not_store_vars>>

NextRace == \E p \in 1..2 : ReadStep(p) \/ WriteStep(p)

SpecRace == InitRace /\ [][NextRace]_vars

(***************************************************************************)
(* Properties of the judge loop.                                           *)
(***************************************************************************)
\* The states the loop is in right after a validation decided.
Decided == loop_state \in {"ACCEPT", "REGENERATE", "GIVE_UP"}

Last(s) == s[Len(s)]

AllFail == \A i \in 1..Len(evaluations) : evaluations[i].validation_status = "FAIL"

\* C1: whatever the judge answers, the attempt counter stays within
\* 0..max_regeneration_attempts, which is 2, and one request performs at most
\* 2 generation passes beyond the first.
C1_RegenerationBound ==
    /\ attempt \in 0..2
    /\ generation_passes <= 1 + 2
    /\ output.regenerations <= 2

\* Three consecutive FAIL verdicts: the third generation pass was made and the loop gave up.
C1_Witness ==
    /\ loop_state = "GIVE_UP"
    /\ attempt = 2
    /\ generation_passes = 3
    /\ Len(evaluations) = 3
    /\ AllFail

C3_RegenerateIffFailBelowCap ==
    [][/\ (loop_state = "VALIDATE" /\ loop_state' # "VALIDATE")
            => /\ (loop_state' = "REGENERATE")
                    <=> (evaluation'.validation_status = "FAIL" /\ attempt < 2)
               /\ (loop_state' = "REGENERATE") => (attempt' = attempt + 1)
               /\ (loop_state' # "REGENERATE") => (attempt' = attempt)
       /\ (loop_state = "REGENERATE")
            => /\ loop_state' = "VALIDATE"
               /\ generation_passes' = generation_passes + 1
               /\ report_text' = attempt
       /\ (loop_state' \in TerminalStates) => (loop_state = "VALIDATE")
      ]_vars

\* The second regeneration was followed by a generation pass and a validation.
C3_Witness ==
    /\ loop_state = "VALIDATE"
    /\ attempt = 2
    /\ report_text = 2
    /\ generation_passes = 3

C5_RequestTerminates ==
    (loop_state = "GENERATE")
        ~> (loop_state = "IDLE" /\ output.returned /\ output.terminal \in TerminalStates)

\* A request returned after exhausting both regenerations.
C5_Witness ==
    /\ loop_state = "IDLE"
    /\ output.returned
    /\ output.terminal = "GIVE_UP"
    /\ output.regenerations = 2

\* C6: the evaluation returned is the one of the last validation, never an
\* earlier or merged one; FAIL at attempt 0 then PASS at attempt 1 returns the
\* PASS evaluation with validation_passed true after exactly one regeneration.
C6_LatestEvaluationReturned ==
    output.returned =>
        /\ Len(evaluations) > 0
        /\ output.evaluation = Last(evaluations)
        /\ (/\ Len(evaluations) = 2
            /\ evaluations[1].validation_status = "FAIL"
            /\ evaluations[2].validation_status = "PASS")
             => /\ output.evaluation.validation_status = "PASS"
                /\ output.validation_passed
                /\ output.terminal = "ACCEPT"
                /\ output.regenerations = 1
                /\ output.report_text = 1

\* FAIL with score 9, then PASS with score 0: the PASS evaluation was returned.
C6_Witness ==
    /\ output.returned
    /\ Len(evaluations) = 2
    /\ evaluations[1].validation_status = "FAIL"
    /\ evaluations[1].trustworthiness_score = 9
    /\ output.evaluation.validation_status = "PASS"
    /\ output.evaluation.trustworthiness_score = 0

\* C7: when every validation of the request returned FAIL, the request ended
\* in GIVE_UP after attempt 2, returned the report generated at attempt 2 and
\* validation_passed is false.
C7_AllFailGivesUpAtAttemptTwo ==
    (output.returned /\ AllFail) =>
        /\ output.terminal = "GIVE_UP"
        /\ attempt = 2
        /\ output.report_text = 2
        /\ Len(evaluations) = 2 + 1
        /\ ~output.validation_passed
        /\ output.evaluation.validation_status = "FAIL"

\* The all-FAIL request has returned.
C7_Witness ==
    /\ output.returned
    /\ AllFail
    /\ output.terminal = "GIVE_UP"
    /\ output.report_text = 2

\* Some line of the answer carries the label with one of the values.
HasLine(response, label, values) ==
    \E i \in 1..Len(response) : response[i].label = label /\ response[i].value \in values

Parsed == judge_response # NoResponse

\* C8: an answer without a well-formed status line parses to FAIL (a missing
\* or malformed score parses to 0, a missing or malformed recommendation to
\* MANUAL_REVIEW); PASS is parsed only when the status line says PASS, so such
\* an answer never leads to ACCEPT.
C8_ParserFailsClosed ==
    Parsed =>
        /\ ~HasLine(judge_response, STATUS_LABEL, ValidationStatuses)
             => (evaluation.validation_status = "FAIL" /\ loop_state # "ACCEPT")
        /\ ~HasLine(judge_response, SCORE_LABEL, {ScoreTexts[i] : i \in 1..Len(ScoreTexts)})
             => evaluation.trustworthiness_score = 0
        /\ ~HasLine(judge_response, RECOMMENDATION_LABEL, Recommendations)
             => evaluation.recommendation = "MANUAL_REVIEW"
        /\ (evaluation.validation_status = "PASS" \/ loop_state = "ACCEPT")
             => HasLine(judge_response, STATUS_LABEL, {"PASS"})

\* An answer whose status line is malformed, and which says PASS on another
\* line, was parsed to FAIL / 0 / MANUAL_REVIEW.
C8_Witness ==
    /\ Parsed
    /\ HasLine(judge_response, STATUS_LABEL, {"MAYBE"})
    /\ ~HasLine(judge_response, STATUS_LABEL, ValidationStatuses)
    /\ HasLine(judge_response, "COMPLETENESS", {"PASS"})
    /\ evaluation.validation_status = "FAIL"
    /\ evaluation.trustworthiness_score = 0
    /\ evaluation.recommendation = "MANUAL_REVIEW"

(***************************************************************************)
(* Properties of generate_report.                                          *)
(***************************************************************************)
\* The keys reachable from the keys of S through Subtasks in at most n steps.
RECURSIVE Descendants(_, _, _)
Descendants(dict, S, n) ==
    IF n = 0 THEN {}
    ELSE LET children == UNION {Range(RowSubtasks(dict, k)) : k \in S}
         IN children \cup Descendants(dict, children, n - 1)

\* Some issue of the batch is reachable from itself through Subtasks.
HasSubtaskCycle(batch) ==
    LET dict == [k \in {batch[i].key : i \in 1..Len(batch)} |->
                    Normalize(batch[CHOOSE i \in 1..Len(batch) : batch[i].key = k])]
    IN \E k \in DOMAIN dict : k \in Descendants(dict, {k}, Len(batch))

UsesHierarchy == persona \notin {"manager", "group_manager", "cto"}

\* C9: for an issue set whose subtask links contain a cycle (a self-reference
\* included), build_hierarchical_text started from the roots terminates with a
\* finite text block, so that generate_report returns its report.
C9_CyclicHierarchyTerminates ==
    (gr_pc = "done" /\ UsesHierarchy /\ HasSubtaskCycle(issues))
        => /\ gr_result.kind = "returned"
           /\ gr_result.report.achievements_summary.digest.kind = "hierarchy"

DoneCount(batch) == Cardinality({i \in 1..Len(batch) : batch[i].status = "Done"})

\* C10: for a batch of n > 0 issues of which k have status exactly "Done" the
\* metrics line reports Total = n, Completed = k and k/n*100 rounded to the
\* nearest integer, between 0 and 100; for n = 0 the "No issues found" report
\* with two empty tables is returned and no division is evaluated.
C10_MetricsLine ==
    (gr_pc = "done") =>
        /\ (issues = <<>>) => (gr_result = NoIssuesResult /\ divisions = 0)
        /\ (issues # <<>> /\ gr_result.kind = "returned") =>
              LET n == Len(issues)
                  k == DoneCount(issues)
                  r == gr_result.report
                  off == 100 * k - r.completion_pct * n
              IN /\ r.section = "full"
                 /\ r.total_issues = n
                 /\ r.completed = k
                 /\ r.completion_pct \in 0..100
                 /\ 2 * off <= n
                 /\ 2 * off >= 0 - n

\* Two of three issues are Done: the report says 67%.
C10_Witness ==
    /\ gr_pc = "done"
    /\ gr_result.kind = "returned"
    /\ Len(issues) = 3
    /\ DoneCount(issues) = 2
    /\ gr_result.report.completion_pct = 67

(***************************************************************************)
(* Properties of get_next_period_dates.                                    *)
(***************************************************************************)
\* A piece written in the YYYY-MM-DD form: four, two and two digits.
IsYMD(piece) ==
    piece.word = "" /\ Len(piece.y) = 4 /\ Len(piece.m) = 2 /\ Len(piece.d) = 2

\* The date a YYYY-MM-DD piece names exists in the calendar.
NamesADate(piece) ==
    /\ DigitsValue(piece.y) >= 1
    /\ DigitsValue(piece.m) \in 1..12
    /\ DigitsValue(piece.d) \in 1..DaysInMonth(DigitsValue(piece.y), DigitsValue(piece.m))

DateOf(piece) ==
    [y |-> DigitsValue(piece.y), m |-> DigitsValue(piece.m), d |-> DigitsValue(piece.d)]

IsKeyword == current_period \in {<<Word("last_week")>>, <<Word("last_month")>>}

\* The call returned a window of two YYYY-MM-DD dates that starts on `first'
\* and is `days' calendar days long.
ReturnedWindow(first, days) ==
    /\ next_period.kind = "returned"
    /\ Len(next_period.text) = 2
    /\ \A i \in 1..2 : IsYMD(next_period.text[i]) /\ NamesADate(next_period.text[i])
    /\ DateOf(next_period.text[1]) = first
    /\ ToOrdinal(DateOf(next_period.text[2])) - ToOrdinal(first) = days

\* C11: the next window starts where the current period ends and is as long
\* in calendar days: "S to E" gives "E to E+(E-S)", last_week gives exactly 7
\* days and last_month exactly 30 days starting at the current date.
C11_NextWindowSameLength ==
    next_period # NoResult =>
        /\ current_period = <<Word("last_week")>> => ReturnedWindow(now, 7)
        /\ current_period = <<Word("last_month")>> => ReturnedWindow(now, 30)
        /\ ( /\ Len(current_period) = 2
             /\ ~strptime(current_period[1]).error
             /\ ~strptime(current_period[2]).error )
           => LET S == strptime(current_period[1]).date
                  E == strptime(current_period[2]).date
              IN ReturnedWindow(E, ToOrdinal(E) - ToOrdinal(S))
        /\ current_period = <<DateText(<<2, 0, 2, 5>>, <<1, 0>>, <<0, 1>>),
                              DateText(<<2, 0, 2, 5>>, <<1, 0>>, <<0, 7>>)>>
           => next_period = Returned(<<DateText(<<2, 0, 2, 5>>, <<1, 0>>, <<0, 7>>),
                                       DateText(<<2, 0, 2, 5>>, <<1, 0>>, <<1, 3>>)>>)

\* A 31-day range across the turn of the year was extended over the end of
\* February.
C11_Witness ==
    /\ current_period = <<DateText(<<2, 0, 2, 4>>, <<1, 2>>, <<3, 1>>),
                          DateText(<<2, 0, 2, 5>>, <<0, 1>>, <<3, 1>>)>>
    /\ next_period = Returned(<<DateText(<<2, 0, 2, 5>>, <<0, 1>>, <<3, 1>>),
                                DateText(<<2, 0, 2, 5>>, <<0, 3>>, <<0, 3>>)>>)

\* C12: every input that is neither "last_week", "last_month" nor two valid
\* YYYY-MM-DD dates joined by " to " makes get_next_period_dates fail with an
\* error.
C12_EveryOtherInputFails ==
    ( /\ next_period # NoResult
      /\ ~IsKeyword
      /\ ~( /\ Len(current_period) = 2
            /\ \A i \in 1..2 : IsYMD(current_period[i]) /\ NamesADate(current_period[i]) ) )
    => next_period.kind = "raised"

(***************************************************************************)
(* Properties of the LLM summarizer.                                       *)
(***************************************************************************)
\* generate_report has returned its report.
ReportReturned == gr_pc = "done" /\ gr_result.kind = "returned"

\* C13: get_llm_summary is total: whatever the provider tag, the credential,
\* the Groq model and the provider's answer (completion, rate limit, timeout,
\* any other failure), it returns a text and raises nothing, and the report
\* generation that called it goes on to return its report with that text.
C13_SummarizerIsTotal ==
    /\ ai_summary # NoResult =>
           /\ ai_summary.kind = "returned"
           /\ gr_pc \in {"summarized", "assemble", "done"}
    /\ gr_pc = "done" =>
           /\ gr_result.kind = "returned"
           /\ ai_summary # NoResult =>
                  gr_result.report.achievements_summary.ai = ai_summary.text

\* A provider failure was caught inside the summarizer and the report came
\* back with the error text.
C13_Witness ==
    /\ llm_provider = "Gemini"
    /\ provider_outcome = "error"
    /\ ai_summary = Returned(<<"AI summary error: ", "error">>)
    /\ ReportReturned

\* A text that reports the rate limit and tells the caller to pick another
\* model.
IsRateLimitMessage(text) ==
    /\ Len(text) = 3
    /\ text[1] = "Rate limit hit for "
    /\ text[3] = ". Please select another model and regenerate the report."

\* C14: when a provider answers the summarization call with HTTP 429, for
\* every provider, the summarizer makes no second call, returns the rate-limit
\* message telling the caller to pick a different model, and that message is
\* in the report text generate_report returns.
C14_RateLimitMessageForEveryProvider ==
    provider_outcome = "rate_limit" =>
        /\ provider_calls = 1
        /\ ai_summary.kind = "returned"
        /\ IsRateLimitMessage(ai_summary.text)
        /\ gr_pc = "done" =>
               /\ gr_result.kind = "returned"
               /\ IsRateLimitMessage(gr_result.report.achievements_summary.ai)

\* C15: with the provider "None" no provider is ever called: get_llm_summary
\* returns the empty text, and the delivered section generate_report builds
\* is the persona digest as it was before the summary step.
C15_NoOpProviderLeavesDigest ==
    llm_provider = "None" =>
        /\ provider_calls = 0
        /\ provider_outcome = "none"
        /\ ai_summary # NoResult => ai_summary = Returned(<<>>)
        /\ gr_pc = "assemble" =>
               achievements_summary = [digest |-> hierarchy_text, heading |-> "", ai |-> <<>>]
        /\ (gr_pc = "done" /\ issues # <<>>) =>
               /\ gr_result.kind = "returned"
               /\ hierarchy_text =
                      PersonaDigest(persona, issues_dict, df, achieved_keys, roots)
               /\ gr_result.report.achievements_summary =
                      [digest |-> hierarchy_text, heading |-> "", ai |-> <<>>]

\* A report came back for provider "None" although a credential was given and
\* issues were achieved.
C15_Witness ==
    /\ llm_provider = "None"
    /\ api_key # ""
    /\ achieved_keys # <<>>
    /\ ReportReturned

(***************************************************************************)
(* Properties of fetch_issues.                                             *)
(***************************************************************************)
\* A fetch from a paged source, JiraClient.fetch_issues with its default
\* max_results, has ended and no request failed.
FetchComplete ==
    /\ fetch_pc = "done"
    /\ ~fetch_failed
    /\ source_behaviour = "paged"
    /\ fetcher = "JiraClient" => max_results = DEFAULT_MAX_RESULTS

\* The first n issues of the source, in source order.
FirstIssues(n) == [i \in 1..n |-> i]

\* The offsets 0, 50, 100, ... of the pages that hold n issues (one request
\* tells that the source is empty).
PageOffsets(n) == [j \in 1..(IF n = 0 THEN 1 ELSE (n + 49) \div 50) |-> 50 * (j - 1)]

RECURSIVE MapAfter(_)
MapAfter(calls) ==
    IF calls = <<>> THEN [n \in PresetNames |-> NoCriteria]
    ELSE LET before == MapAfter(SubSeq(calls, 1, Len(calls) - 1))
             call == calls[Len(calls)]
         IN [before EXCEPT ![call.name] =
                IF call.op = "save" THEN call.criteria ELSE NoCriteria]

LiveNames(map) == {n \in PresetNames : map[n] # NoCriteria}

\* C17: after any sequence of save_criteria and delete_preset calls run one
\* after another the store is the map of applying them in order:
\* load_criteria gives the criteria of the last save of the name (None when
\* never saved or since deleted), get_all_presets lists exactly the live
\* names, and a delete_preset changed nothing but its own name.
C17_StoreIsMapOfCalls ==
    LET map == MapAfter(preset_calls)
        names == get_all_presets(presets_file)
    IN /\ \A n \in PresetNames : load_criteria(presets_file, n) = map[n]
       /\ {names[i] : i \in 1..Len(names)} = LiveNames(map)
       /\ Len(names) = Cardinality(LiveNames(map))
       /\ preset_result # NoResult =>
              /\ preset_result.op = "load" => preset_result.value = map[preset_result.name]
              /\ preset_result.op = "list" =>
                     /\ {preset_result.value[i] : i \in 1..Len(preset_result.value)}
                            = LiveNames(map)
                     /\ Len(preset_result.value) = Cardinality(LiveNames(map))
              /\ preset_result.op = "delete" =>
                     LET before == MapAfter(SubSeq(preset_calls, 1, Len(preset_calls) - 1))
                     IN \A n \in PresetNames :
                            load_criteria(presets_file, n) =
                                IF n = preset_result.name THEN NoCriteria ELSE before[n]

\* Two presets were saved, the first saved again and then deleted: the
\* listing holds the second alone.
C17_Witness ==
    /\ preset_calls = <<[op |-> "save", name |-> "preset1", criteria |-> [test |-> 1]],
                        [op |-> "save", name |-> "preset2", criteria |-> [test |-> 2]],
                        [op |-> "save", name |-> "preset1", criteria |-> [test |-> 2]],
                        [op |-> "delete", name |-> "preset1", criteria |-> NoCriteria]>>
    /\ preset_result.op = "list"
    /\ preset_result.value = <<"preset2">>

(***************************************************************************)
(* Properties of the persona digest and the root set.                      *)
(***************************************************************************)
IsRawDone(issue) == issue.status = "Done"

\* The achieved issues of the batch, in the order of the batch.
RawAchieved == SelectSeq(issues, IsRawDone)

\* generate_report has built the persona digest.
DigestBuilt == gr_pc \in {"summary", "assemble", "done"} /\ hierarchy_text # NoDigest

\* C18: for the manager persona with N achieved issues the digest states the
\* count N, lists the summaries of the first min(N, 5) achieved issues in
\* insertion order, ends with ", and N-5 other items" when N > 5 and with "."
\* otherwise, and has no line that carries an issue identifier.
C18_ManagerDigest ==
    (persona = "manager" /\ DigestBuilt) =>
        LET N == Len(RawAchieved)
            shown == IF N < 5 THEN N ELSE 5
        IN /\ hierarchy_text.kind = "manager"
           /\ hierarchy_text.count = N
           /\ hierarchy_text.summaries = [i \in 1..shown |-> RawAchieved[i].summary]
           /\ hierarchy_text.others = (IF N > 5 THEN N - 5 ELSE 0)
           /\ hierarchy_text.lines = <<>>
           /\ (gr_pc = "done" /\ gr_result.kind = "returned") =>
                  gr_result.report.achievements_summary.digest = hierarchy_text

\* A manager report came back for seven achieved issues among eight: five
\* summaries and "2 other items".
C18_Witness ==
    /\ persona = "manager"
    /\ Len(issues) = 8
    /\ Len(RawAchieved) = 7
    /\ gr_pc = "done"
    /\ gr_result.kind = "returned"
    /\ Len(gr_result.report.achievements_summary.digest.summaries) = 5
    /\ gr_result.report.achievements_summary.digest.others = 2

\* generate_report has computed the root set.
RootsComputed == gr_pc \in {"persona", "summary", "assemble", "done"} /\ issues # <<>>

\* An achieved issue of the batch whose parent is absent or is not an
\* achieved issue of the batch.
IsRawRoot(issue) ==
    /\ issue.status = "Done"
    /\ \/ issue.parent = NoParent
       \/ \A j \in 1..Len(issues) : issues[j].key = issue.parent => issues[j].status # "Done"

\* C19: the root set is exactly the achieved identifiers whose parent is
\* absent or not itself achieved, in the insertion order of the achieved
\* subset; no issue that is not Done and no issue with a Done parent is a root.
C19_RootSet ==
    RootsComputed =>
        /\ roots = [i \in 1..Len(SelectSeq(issues, IsRawRoot)) |->
                       SelectSeq(issues, IsRawRoot)[i].key]
        /\ \A i \in 1..Len(issues) :
               (\E r \in 1..Len(roots) : roots[r] = issues[i].key) =>
                   /\ issues[i].status = "Done"
                   /\ \A j \in 1..Len(issues) :
                          issues[j].key = issues[i].parent => issues[j].status # "Done"

\* Two achieved issues, the first under a parent outside the batch and the
\* second under the first: the first alone is a root.
C19_Witness ==
    /\ RootsComputed
    /\ Len(issues) = 2
    /\ issues[1].status = "Done" /\ issues[1].parent = OutsideKey
    /\ issues[2].status = "Done" /\ issues[2].parent = issues[1].key
    /\ roots = <<issues[1].key>>

(***************************************************************************)
(* The regeneration attempt counter.                                       *)
(***************************************************************************)
\* C20: the attempt counter is 0 at the start of every user-triggered report
\* generation, whatever the previous request left; within a request it
\* changes only by +1 and only on the step from VALIDATE to REGENERATE, taken
\* on a FAIL below the cap of 2; the steps to ACCEPT and GIVE_UP leave it
\* unchanged.
C20_AttemptCounter ==
    [][ /\ (loop_state = "IDLE" /\ loop_state' # "IDLE") =>
               (loop_state' = "GENERATE" /\ attempt' = 0)
        /\ (loop_state # "IDLE" /\ attempt' # attempt) =>
               /\ attempt' = attempt + 1
               /\ loop_state = "VALIDATE" /\ loop_state' = "REGENERATE"
               /\ evaluation'.validation_status = "FAIL"
               /\ attempt < 2
        /\ (loop_state = "VALIDATE" /\ loop_state' \in {"ACCEPT", "GIVE_UP"}) =>
               attempt' = attempt
      ]_vars

\* A request that regenerated twice has returned; the next request starts
\* from this state.
C20_Witness ==
    /\ loop_state = "IDLE"
    /\ output.returned
    /\ attempt = 2

C22_FetchFailureSurfaced ==
    (fetch_pc = "done" /\ fetch_failed) =>
        /\ fetch_result.kind = "raised"
        /\ \A i, j \in 1..Len(requests) : requests[i] = requests[j] => i = j

(***************************************************************************)
(* The query builders and a period text of neither shape.                  *)
(***************************************************************************)
\* A builder was called with the period text.
QueryBuilt == next_jql # NoResult

\* C23: build_jql, JQLBuilder.for_achievements and JQLBuilder.for_next_steps
\* return no query for a period text that is given (not empty) and is neither
\* "last_week" nor "last_month" nor two pieces joined by one " to ": the call
\* fails instead of dropping the date filter.
C23_BuildersRejectInvalidPeriod ==
    ( /\ QueryBuilt
      /\ ~IsKeyword
      /\ current_period # <<Word("")>>
      /\ Len(current_period) # 2 )
    => next_jql.kind = "raised"

(***************************************************************************)
(* Two invocations writing the preset store at the same time.              *)
(***************************************************************************)
BothDone == invocations # <<>> /\ \A p \in 1..2 : invocations[p].pc = "done"

\* The store as load_criteria reads it.
StoredMap == [n \in PresetNames |-> load_criteria(presets_file, n)]

\* C24: when a save_criteria runs at the same time as a save_criteria or a
\* delete_preset on another name, then after both have returned the store is
\* what running the two one after another, in one order or the other, leaves:
\* no update is lost, however their file reads and writes interleave.
C24_NoLostUpdate ==
    BothDone =>
        LET a == invocations[1].call
            b == invocations[2].call
        IN \/ StoredMap = MapAfter(preset_calls \o <<a, b>>)
           \/ StoredMap = MapAfter(preset_calls \o <<b, a>>)

(***************************************************************************)
(* The hierarchy text as a traversal.                                      *)
(***************************************************************************)
InBatch(key) == \E i \in 1..Len(issues) : issues[i].key = key

RawOf(key) == issues[CHOOSE i \in 1..Len(issues) : issues[i].key = key]

\* The positions of S in increasing order.
Ascending(S) ==
    [k \in 1..Cardinality(S) |-> CHOOSE x \in S : Cardinality({y \in S : y < x}) = k - 1]

\* The lines directly under line i: one step deeper, with nothing as shallow
\* as line i in between.
LinesUnder(lines, i) ==
    LET Under(j) == /\ j > i
                    /\ lines[j].indent = lines[i].indent + 1
                    /\ \A m \in (i + 1)..(j - 1) : lines[m].indent > lines[i].indent
    IN Ascending({j \in 1..Len(lines) : Under(j)})

TopLines(lines) == Ascending({j \in 1..Len(lines) : lines[j].indent = 0})

KeysOfLines(lines, at) == [n \in 1..Len(at) |-> lines[at[n]].key]

\* C25: on a batch without a subtask cycle the hierarchy text is the
\* depth-first pre-order traversal from the roots: the lines at depth 0 are
\* the roots in order, the lines directly under the line of an identifier are
\* its subtasks in list order, one step deeper, each line carries the summary
\* of its identifier, and an identifier that is not a key of the batch gets a
\* line with nothing under it; the traversal raises nothing.
C25_PreOrderTraversal ==
    (UsesHierarchy /\ ~HasSubtaskCycle(issues)) =>
        /\ (gr_pc = "done" /\ gr_result.kind = "raised") =>
               gr_result.error # "RecursionError"
        /\ DigestBuilt =>
               LET lines == hierarchy_text.lines
               IN /\ hierarchy_text.kind = "hierarchy"
                  /\ KeysOfLines(lines, TopLines(lines)) =
                         [r \in 1..Len(SelectSeq(issues, IsRawRoot)) |->
                             SelectSeq(issues, IsRawRoot)[r].key]
                  /\ \A i \in 1..Len(lines) :
                         /\ lines[i].indent >= 0
                         /\ i > 1 => lines[i].indent <= lines[i - 1].indent + 1
                         /\ i = 1 => lines[i].indent = 0
                         /\ IF InBatch(lines[i].key)
                            THEN /\ lines[i].summary = RawOf(lines[i].key).summary
                                 /\ KeysOfLines(lines, LinesUnder(lines, i)) =
                                        RawOf(lines[i].key).subtasks
                            ELSE /\ lines[i].summary = <<"N/A">>
                                 /\ LinesUnder(lines, i) = <<>>

\* A root with two subtasks, the first an issue of the batch that lists a key
\* outside the batch, the second that outside key itself: four lines.
C25_Witness ==
    /\ DigestBuilt
    /\ UsesHierarchy
    /\ ~HasSubtaskCycle(issues)
    /\ Len(hierarchy_text.lines) = 4
    /\ [i \in 1..4 |-> hierarchy_text.lines[i].key] =
           <<TreeKeys[1], TreeKeys[2], OutsideKey, OutsideKey>>
    /\ [i \in 1..4 |-> hierarchy_text.lines[i].indent] = <<0, 1, 2, 1>>

(***************************************************************************)
(* The cap and the termination of a fetch.                                 *)
(***************************************************************************)
\* C28: JiraClient.fetch_issues returns at most max_results issues, for every
\* max_results >= 0, a multiple of the page size 50 or not, and whatever the
\* source answers in pages of at most 50 issues.
C28_AtMostMaxResults ==
    (fetcher = "JiraClient" /\ fetch_pc = "done" /\ fetch_result.kind = "returned") =>
        Len(fetch_result.issues) <= max_results

\* C29: fetch_issues of app.py returns, after a bounded number of page
\* requests, whatever the source answers: also when every page is full and
\* the total reported is never reached.
C29_FetchTerminates == (fetcher = "app") => <>(fetch_pc = "done")

(***************************************************************************)
(* The delivered section after a failed summary.                           *)
(***************************************************************************)
\* The provider answered the summarization call with a failure.
SummaryDegraded == provider_outcome \in {"rate_limit", "timeout", "error"}

\* C27: when the summarizer returns a degradation text (rate limit, timeout
\* or provider error), the delivered section of the report still holds the
\* persona digest built before the call, for every persona, and the
\* degradation text comes with it as an annotation.
C27_DegradationKeepsDigest ==
    (ReportReturned /\ SummaryDegraded) =>
        /\ hierarchy_text # NoDigest
        /\ gr_result.report.achievements_summary.digest = hierarchy_text
        /\ gr_result.report.achievements_summary.ai = ai_summary.text

(***************************************************************************)
(* The hierarchy and the achieved subset.                                  *)
(***************************************************************************)
AchievedRawKeys == {issues[i].key : i \in {j \in 1..Len(issues) : issues[j].status = "Done"}}

\* How many lines carry the key.
TimesEmitted(lines, key) == Cardinality({i \in 1..Len(lines) : lines[i].key = key})

\* The hierarchy lines hold the achieved issues, each once, and nothing else.
EmitsAchievedOnce(lines) ==
    /\ \A i \in 1..Len(lines) : lines[i].key \in AchievedRawKeys
    /\ \A k \in AchievedRawKeys : TimesEmitted(lines, k) = 1

\* Parent and Subtasks of the achieved issues agree: what an achieved issue
\* lists is listed once and is an achieved issue of the batch whose Parent is
\* the lister, and an achieved issue with an achieved parent is in that
\* parent's list.
LinksAgree ==
    \A i \in 1..Len(issues) :
        issues[i].status = "Done" =>
            /\ \A m, n \in 1..Len(issues[i].subtasks) :
                   issues[i].subtasks[m] = issues[i].subtasks[n] => m = n
            /\ \A n \in 1..Len(issues[i].subtasks) :
                   /\ issues[i].subtasks[n] \in AchievedRawKeys
                   /\ RawOf(issues[i].subtasks[n]).parent = issues[i].key
            /\ issues[i].parent \in AchievedRawKeys =>
                   issues[i].key \in Range(RawOf(issues[i].parent).subtasks)

TeamLeadSection == persona = "team_lead" /\ DigestBuilt /\ ~HasSubtaskCycle(issues)

\* C30 as claimed: in the team_lead delivered section every identifier the
\* hierarchy emits belongs to the achieved subset and every achieved issue is
\* emitted exactly once, for every acyclic issue set, also when Parent and
\* Subtasks disagree.
C30_HierarchyIsAchievedSubset ==
    TeamLeadSection => EmitsAchievedOnce(hierarchy_text.lines)

\* C30 as amended: the same for every acyclic issue set in which Parent and
\* Subtasks of the achieved issues agree; the delivered section returned
\* holds these lines.
C30_HierarchyIsAchievedSubsetWhenLinksAgree ==
    (TeamLeadSection /\ LinksAgree) =>
        /\ EmitsAchievedOnce(hierarchy_text.lines)
        /\ ReportReturned =>
               gr_result.report.achievements_summary.digest.lines = hierarchy_text.lines

\* Two achieved issues, the second the subtask of the first on both sides of
\* the link: two lines one level apart.
C30_Witness ==
    /\ TeamLeadSection
    /\ LinksAgree
    /\ Len(issues) = 2
    /\ issues[2].parent = issues[1].key
    /\ issues[1].subtasks = <<issues[2].key>>
    /\ [i \in 1..Len(hierarchy_text.lines) |-> hierarchy_text.lines[i].key]
           = <<issues[1].key, issues[2].key>>
    /\ [i \in 1..Len(hierarchy_text.lines) |-> hierarchy_text.lines[i].indent] = <<0, 1>>
    /\ ReportReturned

\* The period text is neither a keyword nor two pieces that both parse as dates.
InvalidPeriodText ==
    /\ current_period \notin {<<Word("last_week")>>, <<Word("last_month")>>}
    /\ ~(/\ Len(current_period) = 2
         /\ ~strptime(current_period[1]).error
         /\ ~strptime(current_period[2]).error)

\* C26: a generate_report call given issues and a period text that is neither
\* a relative keyword nor a valid "<date> to <date>" range ends in an error,
\* and no epic-context request, no LLM request and no next-period issue query
\* has been made for it.
C26_InvalidPeriodFailsBeforeExternalCalls ==
    (gr_pc = "done" /\ issues # <<>> /\ InvalidPeriodText) =>
        (gr_result.kind = "raised" /\ external_calls = <<>>)

====
